---- MODULE Spec2Model ----
(***************************************************************************)
(* The market-radar WebSocket hook useMarketRadarWebSocket(symbol) of      *)
(* frontend/app/chat/page.tsx (lines 642-767) as a state machine: the      *)
(* hook's React state and refs, the WebSockets it has created, the         *)
(* reconnect timers it has scheduled, and one action per effect run,       *)
(* effect cleanup, transport event and timer callback.  The runtime is     *)
(* single threaded: every action is one task of the event loop.            *)
(***************************************************************************)
EXTENDS Integers, Sequences, FiniteSets, TLC

\* ------------------------------------------------------------ bounds
\* Spec: WebSockets created, and symbol changes (effect re-runs), over the
\* lifetime of one hook instance.
MaxSockets == 3
MaxRebinds == 1
\* SpecOneKey: WebSockets created under a symbol that never changes, enough to
\* exhaust the reconnect budget.
OneKeySockets == 7
\* SpecReconnect: the bounds of Spec, deep enough to exhaust the reconnect
\* budget after a symbol change.
DeepSockets == 8
DeepRebinds == 1

\* ------------------------------------------------- program constants
MAX_RECONNECT_ATTEMPTS == 5

NULL == "null"

\* WebSocket.readyState
CONNECTING == "CONNECTING"
OPEN == "OPEN"
CLOSING == "CLOSING"
CLOSED == "CLOSED"

\* The strings passed to setError.
ErrConnection == "WebSocket connection error"
ErrExhausted == "Failed to connect after multiple attempts. Please refresh the page."
ErrEstablish == "Failed to establish WebSocket connection"
\* message.message of a server error frame.
ServerMessage == "server error"

\* Two of the symbols the dashboard's selector offers; "BTC" is its initial value.
Symbols == {"BTC", "ETH"}
InitialSymbol == "BTC"

\* symbol.toUpperCase().endsWith('USDT') ? symbol : `${symbol}USDT`
NormalizedSymbol(s) ==
    IF s \in {"BTCUSDT", "ETHUSDT"} THEN s ELSE s \o "USDT"

Facets == {"snapshot", "anomalies", "tempo", "timeline"}

\* useState<MarketRadarData>({snapshot: null, anomalies: null, ...})
InitialData == [f \in Facets |-> NULL]

\* ------------------------------------------------------ inbound frames
\* message.timestamp of an update frame.
Timestamps == {"t1", "t2"}

\* Which facets an update frame carries (the others are null in the frame).
FacetShapes == {{"snapshot"}, {"anomalies"}, Facets}

\* The data object of an update frame sent on the channel of payload symbol u:
\* a facet it carries is tagged with u, the others are null.
FrameData(shape, u) == [f \in Facets |-> IF f \in shape THEN u ELSE NULL]

UpdateFrames(u) ==
    {[type |-> "market_radar_update", timestamp |-> t, data |-> FrameData(sh, u),
      message |-> NULL] : t \in Timestamps, sh \in FacetShapes}

ErrorFrame ==
    [type |-> "error", timestamp |-> NULL, data |-> InitialData, message |-> ServerMessage]

\* Text that JSON.parse rejects ("notjson"), and JSON of another shape ("other").
MalformedFrames ==
    {[type |-> k, timestamp |-> NULL, data |-> InitialData, message |-> NULL] :
        k \in {"notjson", "other"}}

Frames(u) == UpdateFrames(u) \cup {ErrorFrame} \cup MalformedFrames

VARIABLES
    symbol,               \* the hook's argument in the current render
    data, isConnected, isLoading, error, lastUpdate,   \* useState cells
    wsRef,                \* 0 (null) or the index of a socket
    reconnectTimeoutRef,  \* 0 (null) or the id of the timer last scheduled
    reconnectAttemptsRef,
    mountedRef,
    sockets,              \* every WebSocket created, in creation order
    timers,               \* ids of the pending setTimeout callbacks
    rebinds,              \* number of effect re-runs: index of the current binding
    phase,                \* "constructed", "mounted" or "unmounted"
    wsUrlOk,              \* whether new WebSocket(wsUrl) accepts the configured WS_URL
    timerConnects,        \* history: sockets created by timer callbacks since the last onopen
    failures,             \* history: close events since the last onopen
    populated,            \* history: the facets of data that have been non-null
    everOpened,           \* history: an onopen has run
    dropped,              \* history: onmessage has handled a malformed frame
    \* a radar panel (ChangeSnapshot and its three siblings) on the dashboard
    panelProps,           \* "unrendered", or the wsData its effects last ran with
    panelBound,           \* whether the parent passes wsData to the panel
    panelLoading,         \* useState cell loading
    panelHasData,         \* whether the useState cell data is non-null
    panelInterval,        \* whether the polling setInterval is set
    panelFetches,         \* HTTP requests of the panel in flight
    \* the chat page
    messages,             \* useState cell messages
    chatIsLoading,        \* useState cell isLoading of ChatPage
    chatSessions,         \* number of entries of the useState cell chatSessions
    currentSessionId,
    requests              \* the sendMessage calls made, each with its position

hookVars == <<symbol, data, isConnected, isLoading, error, lastUpdate, wsRef,
          reconnectTimeoutRef, reconnectAttemptsRef, mountedRef, sockets, timers,
          rebinds, phase, wsUrlOk, timerConnects, failures, populated, everOpened,
          dropped>>

panelVars == <<panelProps, panelBound, panelLoading, panelHasData, panelInterval,
               panelFetches>>

chatVars == <<messages, chatIsLoading, chatSessions, currentSessionId, requests>>

vars == <<hookVars, panelVars, chatVars>>

snapshot == <<data, isConnected, isLoading, error, lastUpdate>>

\* React drops a state update of a component that has been unmounted.
SetState(old, new) == IF phase = "unmounted" THEN old ELSE new

\* const ws = new WebSocket(wsUrl), created by the connect closure of binding b
\* (symbol s); a timer scheduled by its onclose has the socket's index as id.
NewSocket(s, b, viaTimer) ==
    [symbol |-> s, url |-> NormalizedSymbol(s), binding |-> b, byTimer |-> viaTimer,
     readyState |-> CONNECTING, established |-> FALSE]

\* WebSocket.close(): a connecting or open socket starts closing.
CloseCall(rs) == IF rs \in {CONNECTING, OPEN} THEN CLOSING ELSE rs

Init ==
    /\ symbol = InitialSymbol
    /\ data = InitialData
    /\ isConnected = FALSE
    /\ isLoading = TRUE
    /\ error = NULL
    /\ lastUpdate = NULL
    /\ wsRef = 0
    /\ reconnectTimeoutRef = 0
    /\ reconnectAttemptsRef = 0
    /\ mountedRef = TRUE
    /\ sockets = <<>>
    /\ timers = {}
    /\ rebinds = 0
    /\ phase = "constructed"
    /\ wsUrlOk \in BOOLEAN
    /\ timerConnects = 0
    /\ failures = 0
    /\ populated = {}
    /\ everOpened = FALSE
    /\ dropped = FALSE
    /\ panelProps = "unrendered"
    /\ panelBound = FALSE
    /\ panelLoading = TRUE
    /\ panelHasData = FALSE
    /\ panelInterval = FALSE
    /\ panelFetches = 0
    /\ messages = <<>>
    /\ chatIsLoading = FALSE
    /\ chatSessions = 1
    /\ currentSessionId = 1
    /\ requests = <<>>

\* connect() of the closure over symbol s (binding b), run on the refs as they
\* are after the caller's earlier statements.
Connect(s, b, viaTimer, mountedPre, socketsPre, wsRefPre, cap) ==
    IF ~mountedPre
    THEN /\ sockets' = socketsPre
         /\ wsRef' = wsRefPre
         /\ UNCHANGED <<error, isLoading>>
    ELSE IF wsUrlOk
    THEN /\ Len(socketsPre) < cap
         /\ sockets' = Append(socketsPre, NewSocket(s, b, viaTimer))
         /\ wsRef' = Len(socketsPre) + 1
         /\ UNCHANGED <<error, isLoading>>
    ELSE /\ sockets' = socketsPre
         /\ wsRef' = wsRefPre
         /\ error' = SetState(error, ErrEstablish)
         /\ isLoading' = SetState(isLoading, FALSE)

\* The effect's cleanup: what it leaves in timers and sockets.
CleanupTimers == timers \ {reconnectTimeoutRef}
CleanupSockets ==
    IF wsRef # 0
    THEN [sockets EXCEPT ![wsRef].readyState = CloseCall(@)]
    ELSE sockets

\* First run of the effect.
Mount(cap) ==
    /\ phase = "constructed"
    /\ phase' = "mounted"
    /\ mountedRef' = TRUE
    /\ Connect(symbol, rebinds, FALSE, TRUE, sockets, wsRef, cap)
    /\ UNCHANGED <<symbol, data, isConnected, lastUpdate, reconnectTimeoutRef,
                   reconnectAttemptsRef, timers, rebinds, wsUrlOk, timerConnects, failures,
                   populated, everOpened, dropped>>
    /\ UNCHANGED <<panelVars, chatVars>>

\* The symbol prop changes: React runs the old effect's cleanup and then the
\* effect of the new connect closure, in one commit.
SymbolChange(s, cap, maxRebinds) ==
    /\ phase = "mounted"
    /\ s # symbol
    /\ rebinds < maxRebinds
    /\ symbol' = s
    /\ rebinds' = rebinds + 1
    /\ timers' = CleanupTimers
    /\ mountedRef' = TRUE
    /\ Connect(s, rebinds + 1, FALSE, TRUE, CleanupSockets, 0, cap)
    /\ UNCHANGED <<data, isConnected, lastUpdate, reconnectTimeoutRef,
                   reconnectAttemptsRef, phase, wsUrlOk, timerConnects, failures,
                   populated, everOpened, dropped>>
    /\ UNCHANGED <<panelVars, chatVars>>

\* The component is disposed: the cleanup runs and no effect follows.
Unmount ==
    /\ phase = "mounted"
    /\ phase' = "unmounted"
    /\ mountedRef' = FALSE
    /\ timers' = CleanupTimers
    /\ sockets' = CleanupSockets
    /\ wsRef' = 0
    /\ UNCHANGED <<symbol, data, isConnected, isLoading, error, lastUpdate,
                   reconnectTimeoutRef, reconnectAttemptsRef, rebinds, wsUrlOk,
                   timerConnects, failures, populated, everOpened, dropped>>
    /\ UNCHANGED <<panelVars, chatVars>>

\* Mutation of OnOpenAttempts: onopen leaves the counter as it was.
KeepAttempts(n) == n

\* reconnectAttemptsRef.current = 0 in ws.onopen
OnOpenAttempts(n) == 0

\* Mutation of OnOpenLoading: onopen toggles isLoading.
ToggledLoading(l) == ~l

\* setIsLoading(false) in ws.onopen
OnOpenLoading(l) == FALSE

\* ws.onopen
WsOpen(i) ==
    /\ sockets[i].readyState = CONNECTING
    /\ sockets' = [sockets EXCEPT ![i].readyState = OPEN, ![i].established = TRUE]
    /\ isConnected' = SetState(isConnected, TRUE)
    /\ isLoading' = SetState(isLoading, OnOpenLoading(isLoading))
    /\ error' = SetState(error, NULL)
    /\ reconnectAttemptsRef' = OnOpenAttempts(reconnectAttemptsRef)
    /\ timerConnects' = 0
    /\ failures' = 0
    /\ everOpened' = TRUE
    /\ UNCHANGED <<symbol, data, lastUpdate, wsRef, reconnectTimeoutRef, mountedRef,
                   timers, rebinds, phase, wsUrlOk, populated, dropped>>
    /\ UNCHANGED <<panelVars, chatVars>>

\* Mutation of UpdatedData: a null facet of the frame keeps the facet held before.
MergedData(old, frameData) ==
    [f \in Facets |-> IF frameData[f] # NULL THEN frameData[f] ELSE old[f]]

\* setData({snapshot: message.data.snapshot, ...}) in ws.onmessage
UpdatedData(old, frameData) == [f \in Facets |-> frameData[f]]

\* Mutation of UpdatedLastUpdate: lastUpdate is set to another time than the frame's.
OtherLastUpdate(old, timestamp) == CHOOSE t \in Timestamps : t # timestamp

\* Mutation of UpdatedLastUpdate: an update frame leaves lastUpdate as it was.
KeptLastUpdate(old, timestamp) == old

\* setLastUpdate(message.timestamp) in ws.onmessage
UpdatedLastUpdate(old, timestamp) == timestamp

\* Mutation of ErrorAfterMessage: every frame that is no error frame clears error.
ErrorClearedByAnyFrame(old, m) == IF m.type = "error" THEN m.message ELSE NULL

\* Mutation of ErrorAfterMessage: the catch block reports the parse failure.
ErrorSetByParseFailure(old, m) ==
    IF m.type = "market_radar_update" THEN NULL
    ELSE IF m.type = "error" THEN m.message
    ELSE IF m.type = "notjson" THEN ErrConnection
    ELSE old

\* Mutation of ErrorAfterMessage: an error frame sets a fixed string.
ErrorSetToFixedString(old, m) ==
    IF m.type = "market_radar_update" THEN NULL
    ELSE IF m.type = "error" THEN ErrConnection
    ELSE old

\* What ws.onmessage leaves in error: setError(null) after an update frame,
\* setError(message.message) after an error frame, nothing otherwise.
ErrorAfterMessage(old, m) ==
    IF m.type = "market_radar_update" THEN NULL
    ELSE IF m.type = "error" THEN m.message
    ELSE old

\* ws.onmessage
WsMessage(i, m) ==
    /\ sockets[i].readyState = OPEN
    /\ IF m.type = "market_radar_update"
       THEN /\ data' = SetState(data, UpdatedData(data, m.data))
            /\ lastUpdate' = SetState(lastUpdate, UpdatedLastUpdate(lastUpdate, m.timestamp))
       ELSE UNCHANGED <<data, lastUpdate>>
    /\ error' = SetState(error, ErrorAfterMessage(error, m))
    /\ populated' = populated \cup {f \in Facets : data'[f] # NULL}
    /\ dropped' = (dropped \/ m \in MalformedFrames)
    /\ UNCHANGED <<symbol, isConnected, isLoading, wsRef, reconnectTimeoutRef,
                   reconnectAttemptsRef, mountedRef, sockets, timers, rebinds, phase,
                   wsUrlOk, timerConnects, failures, everOpened>>
    /\ UNCHANGED <<panelVars, chatVars>>

\* Mutation of ShouldReconnect: the counter is not compared with the maximum.
ShouldReconnectAlways(mounted, attempts) == mounted

\* Mutation of ShouldReconnect: the last retry is not scheduled.
ShouldReconnectEarlyStop(mounted, attempts) ==
    mounted /\ attempts < MAX_RECONNECT_ATTEMPTS - 1

\* Mutation of ShouldReconnect: the comparison admits the maximum itself.
ShouldReconnectInclusive(mounted, attempts) ==
    mounted /\ attempts <= MAX_RECONNECT_ATTEMPTS

\* mountedRef.current && reconnectAttemptsRef.current < MAX_RECONNECT_ATTEMPTS
ShouldReconnect(mounted, attempts) == mounted /\ attempts < MAX_RECONNECT_ATTEMPTS

\* ws.onclose of socket i, with errBefore the error state left by the handlers
\* that ran before it in the same task.
OnClose(i, errBefore) ==
    /\ isConnected' = SetState(isConnected, FALSE)
    /\ wsRef' = 0
    /\ IF ShouldReconnect(mountedRef, reconnectAttemptsRef)
       THEN /\ reconnectAttemptsRef' = reconnectAttemptsRef + 1
            /\ timers' = timers \cup {i}
            /\ reconnectTimeoutRef' = i
            /\ error' = errBefore
            /\ UNCHANGED isLoading
       ELSE IF reconnectAttemptsRef >= MAX_RECONNECT_ATTEMPTS
       THEN /\ error' = SetState(errBefore, ErrExhausted)
            /\ isLoading' = SetState(isLoading, FALSE)
            /\ UNCHANGED <<reconnectAttemptsRef, timers, reconnectTimeoutRef>>
       ELSE /\ error' = errBefore
            /\ UNCHANGED <<isLoading, reconnectAttemptsRef, timers, reconnectTimeoutRef>>

\* The connection of an established socket ends cleanly (the server closes it, or
\* the closing handshake started by close() completes): the close event alone.
WsClose(i) ==
    /\ sockets[i].readyState \in {OPEN, CLOSING}
    /\ sockets[i].established
    /\ sockets' = [sockets EXCEPT ![i].readyState = CLOSED, ![i].established = FALSE]
    /\ OnClose(i, error)
    /\ failures' = failures + 1
    /\ UNCHANGED <<symbol, data, lastUpdate, mountedRef, rebinds, phase, wsUrlOk,
                   timerConnects, populated, everOpened, dropped>>
    /\ UNCHANGED <<panelVars, chatVars>>

\* The connection fails (refused, lost, or closed before it was established):
\* the browser fires the error event and then the close event, in one task.
WsFail(i) ==
    /\ sockets[i].readyState \in {CONNECTING, OPEN, CLOSING}
    /\ sockets' = [sockets EXCEPT ![i].readyState = CLOSED, ![i].established = FALSE]
    /\ OnClose(i, SetState(error, ErrConnection))
    /\ failures' = failures + 1
    /\ UNCHANGED <<symbol, data, lastUpdate, mountedRef, rebinds, phase, wsUrlOk,
                   timerConnects, populated, everOpened, dropped>>
    /\ UNCHANGED <<panelVars, chatVars>>

\* The setTimeout callback scheduled by the onclose of socket i: connect() of
\* the closure that created socket i.
TimerFire(i, cap) ==
    /\ i \in timers
    /\ timers' = timers \ {i}
    /\ Connect(sockets[i].symbol, sockets[i].binding, TRUE, mountedRef, sockets, wsRef, cap)
    /\ timerConnects' = IF Len(sockets') > Len(sockets) THEN timerConnects + 1
                        ELSE timerConnects
    /\ UNCHANGED <<symbol, data, isConnected, lastUpdate, reconnectTimeoutRef,
                   reconnectAttemptsRef, mountedRef, rebinds, phase, wsUrlOk, failures,
                   populated, everOpened, dropped>>
    /\ UNCHANGED <<panelVars, chatVars>>

Next ==
    \/ Mount(MaxSockets)
    \/ \E s \in Symbols : SymbolChange(s, MaxSockets, MaxRebinds)
    \/ Unmount
    \/ \E i \in DOMAIN sockets : WsOpen(i)
    \/ \E i \in DOMAIN sockets : \E m \in Frames(sockets[i].url) : WsMessage(i, m)
    \/ \E i \in DOMAIN sockets : WsClose(i)
    \/ \E i \in DOMAIN sockets : WsFail(i)
    \/ \E i \in DOMAIN sockets : TimerFire(i, MaxSockets)

Spec == Init /\ [][Next]_vars

\* The hook of a component whose symbol never changes, over longer runs.
NextOneKey ==
    \/ Mount(OneKeySockets)
    \/ Unmount
    \/ \E i \in DOMAIN sockets : WsOpen(i)
    \/ \E i \in DOMAIN sockets : \E m \in Frames(sockets[i].url) : WsMessage(i, m)
    \/ \E i \in DOMAIN sockets : WsClose(i)
    \/ \E i \in DOMAIN sockets : WsFail(i)
    \/ \E i \in DOMAIN sockets : TimerFire(i, OneKeySockets)

SpecOneKey == Init /\ [][NextOneKey]_vars

\* The hook of a component that stays mounted with one symbol; a reconnect
\* timer that has been set expires (setTimeout runs its callback after the delay).
NextRecovery ==
    \/ Mount(OneKeySockets)
    \/ \E i \in DOMAIN sockets : WsOpen(i)
    \/ \E i \in DOMAIN sockets : \E m \in Frames(sockets[i].url) : WsMessage(i, m)
    \/ \E i \in DOMAIN sockets : WsClose(i)
    \/ \E i \in DOMAIN sockets : WsFail(i)
    \/ \E i \in DOMAIN sockets : TimerFire(i, OneKeySockets)

SpecRecovery ==
    /\ Init
    /\ [][NextRecovery]_vars
    /\ WF_vars(\E i \in DOMAIN sockets : TimerFire(i, OneKeySockets))

\* The hook over longer runs with symbol changes, with a server that sends no frame.
NextReconnect ==
    \/ Mount(DeepSockets)
    \/ \E s \in Symbols : SymbolChange(s, DeepSockets, DeepRebinds)
    \/ Unmount
    \/ \E i \in DOMAIN sockets : WsOpen(i)
    \/ \E i \in DOMAIN sockets : WsClose(i)
    \/ \E i \in DOMAIN sockets : WsFail(i)
    \/ \E i \in DOMAIN sockets : TimerFire(i, DeepSockets)

SpecReconnect == Init /\ [][NextReconnect]_vars

TypeOK ==
    /\ symbol \in Symbols
    /\ wsRef \in 0..Len(sockets)
    /\ reconnectAttemptsRef \in 0..MAX_RECONNECT_ATTEMPTS
    /\ timers \subseteq DOMAIN sockets

\* ------------------------------------------------------------ radar panel
\* A panel of the dashboard (ChangeSnapshot; AnomalyAlerts, MarketTempo and
\* MarketTimeline have the same two effects), fed with the facet "snapshot".
MaxFetches == 2

UNDEFINED == "undefined"

\* The wsData prop of the panel in the current render: DashboardPage passes the
\* hook's facet; the prop is optional, and a parent that omits it passes undefined.
PanelWsData == IF panelBound THEN data["snapshot"] ELSE UNDEFINED

\* if (wsData) in the first effect
Truthy(wsData) == wsData \notin {NULL, UNDEFINED}

\* The second effect goes on to fetch and poll: it returns early when
\* wsData !== undefined.
UsesHttp(wsData) == wsData = UNDEFINED

\* The two effects of the panel run with wsData = w; the cleanup of the second
\* effect's previous run has cleared its interval.
PanelEffects(w) ==
    /\ panelProps' = w
    /\ UsesHttp(w) => panelFetches < MaxFetches
    /\ panelHasData' = (panelHasData \/ Truthy(w))
    /\ panelLoading' = IF UsesHttp(w) THEN TRUE
                       ELSE IF Truthy(w) THEN FALSE
                       ELSE panelLoading
    /\ panelFetches' = IF UsesHttp(w) THEN panelFetches + 1 ELSE panelFetches
    /\ panelInterval' = UsesHttp(w)

\* First render of the panel; its effects run before the parent's effect.
PanelMount(bound) ==
    /\ phase = "constructed"
    /\ panelProps = "unrendered"
    /\ panelBound' = bound
    /\ PanelEffects(IF bound THEN data["snapshot"] ELSE UNDEFINED)
    /\ UNCHANGED <<hookVars, chatVars>>

\* A render with a changed wsData prop: the effects run again.
PanelUpdate ==
    /\ panelProps # "unrendered"
    /\ PanelWsData # panelProps
    /\ PanelEffects(PanelWsData)
    /\ UNCHANGED <<panelBound, hookVars, chatVars>>

\* The polling interval fires: fetchSnapshot() starts.
PanelPoll ==
    /\ panelInterval
    /\ panelFetches < MaxFetches
    /\ panelLoading' = TRUE
    /\ panelFetches' = panelFetches + 1
    /\ UNCHANGED <<panelProps, panelBound, panelHasData, panelInterval, hookVars, chatVars>>

\* An HTTP request of the panel settles: the response or the catch block sets
\* data, and the finally block clears loading.
PanelFetchDone ==
    /\ panelFetches > 0
    /\ panelFetches' = panelFetches - 1
    /\ panelHasData' = TRUE
    /\ panelLoading' = FALSE
    /\ UNCHANGED <<panelProps, panelBound, panelInterval, hookVars, chatVars>>

\* The dashboard with its hook (one symbol, no unmount) and one panel.
NextPanel ==
    \/ \E bound \in BOOLEAN : PanelMount(bound)
    \/ panelProps # "unrendered" /\ Mount(MaxSockets)
    \/ \E i \in DOMAIN sockets : WsOpen(i)
    \/ \E i \in DOMAIN sockets : \E m \in Frames(sockets[i].url) : WsMessage(i, m)
    \/ \E i \in DOMAIN sockets : WsClose(i)
    \/ \E i \in DOMAIN sockets : WsFail(i)
    \/ \E i \in DOMAIN sockets : TimerFire(i, MaxSockets)
    \/ PanelUpdate
    \/ PanelPoll
    \/ PanelFetchDone

\* React runs the effects of a render, an HTTP request settles, and a reconnect
\* timer expires; nothing obliges the server to send a frame.
SpecPanel ==
    /\ Init
    /\ [][NextPanel]_vars
    /\ WF_vars(PanelUpdate)
    /\ WF_vars(PanelFetchDone)
    /\ WF_vars(\E i \in DOMAIN sockets : TimerFire(i, MaxSockets))

\* ------------------------------------------------------------ chat page
MaxRequests == 2
MaxChunks == 2
MaxSessions == 2

\* A message of the chat: owner is the sendMessage call that created it;
\* content.by is the call whose stream wrote the content (0: the text the
\* message was created with) and content.chunks the chunks accumulated in it.
UserMessage(r) ==
    [role |-> "user", owner |-> r, content |-> [by |-> 0, chunks |-> 0],
     timestamp |-> TRUE]

\* const assistantMessage: content '' and no timestamp
AssistantMessage(r) ==
    [role |-> "assistant", owner |-> r, content |-> [by |-> 0, chunks |-> 0],
     timestamp |-> FALSE]

\* const errorMessage in the catch block
ErrorMessage(r) ==
    [role |-> "assistant", owner |-> r, content |-> [by |-> 0, chunks |-> 0],
     timestamp |-> FALSE]

\* The updater of the stream loop: lastMessage.content = accumulatedContent,
\* if the last message exists and is an assistant's.
SetLastContent(prev, r, n) ==
    IF Len(prev) > 0 /\ prev[Len(prev)].role = "assistant"
    THEN [prev EXCEPT ![Len(prev)].content = [by |-> r, chunks |-> n]]
    ELSE prev

\* The updater after the loop: lastMessage.timestamp = new Date().toISOString().
SetLastTimestamp(prev) ==
    IF Len(prev) > 0 /\ prev[Len(prev)].role = "assistant"
    THEN [prev EXCEPT ![Len(prev)].timestamp = TRUE]
    ELSE prev

\* sendMessage() up to its first await, with a non-empty input: the Enter key
\* calls it whatever isLoading is.
SendMessage ==
    /\ Len(requests) < MaxRequests
    /\ messages' = Append(messages, UserMessage(Len(requests) + 1))
    /\ chatIsLoading' = TRUE
    /\ requests' = Append(requests, [pc |-> "fetching", accumulated |-> 0])
    /\ UNCHANGED <<chatSessions, currentSessionId, hookVars, panelVars>>

\* fetch resolves with response.ok: the placeholder is appended.
ResponseOk(r) ==
    /\ requests[r].pc = "fetching"
    /\ messages' = Append(messages, AssistantMessage(r))
    /\ chatIsLoading' = FALSE
    /\ requests' = [requests EXCEPT ![r].pc = "streaming"]
    /\ UNCHANGED <<chatSessions, currentSessionId, hookVars, panelVars>>

\* fetch rejects, the response is not ok, or reader.read() rejects: the catch block.
RequestFails(r) ==
    /\ requests[r].pc \in {"fetching", "streaming"}
    /\ messages' = Append(messages, ErrorMessage(r))
    /\ chatIsLoading' = FALSE
    /\ requests' = [requests EXCEPT ![r].pc = "done"]
    /\ UNCHANGED <<chatSessions, currentSessionId, hookVars, panelVars>>

\* reader.read() resolves with a chunk.
StreamChunk(r) ==
    /\ requests[r].pc = "streaming"
    /\ requests[r].accumulated < MaxChunks
    /\ requests' = [requests EXCEPT ![r].accumulated = @ + 1]
    /\ messages' = SetLastContent(messages, r, requests[r].accumulated + 1)
    /\ UNCHANGED <<chatIsLoading, chatSessions, currentSessionId, hookVars, panelVars>>

\* reader.read() resolves with done: the loop ends and the timestamp is set.
StreamDone(r) ==
    /\ requests[r].pc = "streaming"
    /\ requests' = [requests EXCEPT ![r].pc = "done"]
    /\ messages' = SetLastTimestamp(messages)
    /\ UNCHANGED <<chatIsLoading, chatSessions, currentSessionId, hookVars, panelVars>>

CreateNewChat ==
    /\ chatSessions < MaxSessions
    /\ chatSessions' = chatSessions + 1
    /\ currentSessionId' = chatSessions + 1
    /\ messages' = <<>>
    /\ UNCHANGED <<chatIsLoading, requests, hookVars, panelVars>>

SwitchSession(sessionId) ==
    /\ currentSessionId' = sessionId
    /\ messages' = <<>>
    /\ UNCHANGED <<chatIsLoading, chatSessions, requests, hookVars, panelVars>>

NextChat ==
    \/ SendMessage
    \/ \E r \in DOMAIN requests : ResponseOk(r)
    \/ \E r \in DOMAIN requests : RequestFails(r)
    \/ \E r \in DOMAIN requests : StreamChunk(r)
    \/ \E r \in DOMAIN requests : StreamDone(r)
    \/ CreateNewChat
    \/ \E sessionId \in 1..chatSessions : SwitchSession(sessionId)

SpecChat == Init /\ [][NextChat]_vars

\* ------------------------------------------------------------ properties
\* The sockets that are connecting, open or closing.
NonClosed == {i \in DOMAIN sockets : sockets[i].readyState # CLOSED}
\* Socket i was created by the connect closure of a binding whose cleanup has run.
TornDown(i) == sockets[i].binding < rebinds \/ phase = "unmounted"
\* A step that is neither a symbol change nor a mount or unmount.
SameBinding == rebinds' = rebinds /\ phase' = phase

\* C1 (single live transport): in every reachable state at most one WebSocket
\* created by the hook is connecting, open or closing.
C1_SingleLiveTransport == Cardinality(NonClosed) <= 1

\* C2 (post-teardown silence): an onopen, onmessage, onerror/onclose or reconnect
\* timer callback of a socket whose binding has been torn down changes none of
\* data, isConnected, isLoading, error, lastUpdate.
C2_PostTeardownSilence ==
    [][\A i \in DOMAIN sockets :
          ( /\ TornDown(i)
            /\ \/ WsOpen(i)
               \/ WsClose(i)
               \/ WsFail(i)
               \/ \E m \in Frames(sockets[i].url) : WsMessage(i, m)
               \/ TimerFire(i, MaxSockets) )
          => UNCHANGED snapshot]_vars

\* C3 as stated (reconnect bound): under an unchanged symbol, once
\* MAX_RECONNECT_ATTEMPTS closes have followed one another without an open, the
\* exhaustion error is reported, no timer is pending and no further socket exists.
C3_FailedAfterMaxFailures ==
    (phase = "mounted" /\ rebinds = 0 /\ failures = MAX_RECONNECT_ATTEMPTS)
        => (error = ErrExhausted /\ timers = {} /\ NonClosed = {})

\* C3 as amended: under an unchanged symbol the exhaustion error is reported by the
\* close that follows MAX_RECONNECT_ATTEMPTS earlier closes without an open in
\* between (close number MAX_RECONNECT_ATTEMPTS + 1: from the start, the initial
\* attempt and every one of the MAX_RECONNECT_ATTEMPTS retries); until then it is
\* not reported, after MAX_RECONNECT_ATTEMPTS closes the next attempt is pending or
\* under way, and after the report there is no timer, no socket and no further close.
C3_FailedAfterMaxRetries ==
    (phase = "mounted" /\ rebinds = 0)
        => /\ failures <= MAX_RECONNECT_ATTEMPTS => error # ErrExhausted
           /\ failures = MAX_RECONNECT_ATTEMPTS => (timers # {} \/ NonClosed # {})
           /\ failures > MAX_RECONNECT_ATTEMPTS =>
                 /\ failures = MAX_RECONNECT_ATTEMPTS + 1
                 /\ error = ErrExhausted
                 /\ ~isConnected
                 /\ timers = {}
                 /\ NonClosed = {}

\* C3 witness: the initial attempt and all the retries have failed, and the
\* exhaustion error is reported.
C3_Witness ==
    /\ phase = "mounted"
    /\ failures = MAX_RECONNECT_ATTEMPTS + 1
    /\ Len(sockets) = MAX_RECONNECT_ATTEMPTS + 1
    /\ error = ErrExhausted

\* C4 as stated (monotonic facet merge): no step sets a non-null facet of data
\* back to null.
C4_FacetNeverNulled ==
    [][\A f \in Facets : data[f] # NULL => data'[f] # NULL]_vars

\* C4 as amended: a market_radar_update frame replaces all four facets of data by
\* the frame's own facets, the null ones included.
C4_FrameReplacesData ==
    [][\A i \in DOMAIN sockets : \A m \in UpdateFrames(sockets[i].url) :
          (phase = "mounted" /\ WsMessage(i, m)) => data' = m.data]_vars

\* C4 witness: a facet that has been non-null is null again while another facet
\* is set (a snapshot-only frame followed by an anomalies-only frame).
C4_Witness ==
    /\ "snapshot" \in populated
    /\ data["snapshot"] = NULL
    /\ data["anomalies"] # NULL

\* C5 (idempotent open): a step in which connect() creates a WebSocket leaves no
\* earlier socket of the hook connecting or open.
C5_IdempotentOpen ==
    [][Len(sockets') > Len(sockets)
          => \A i \in DOMAIN sockets : sockets'[i].readyState \notin {CONNECTING, OPEN}]_vars

\* C6 (reset on success): whenever no close event has followed the last onopen,
\* the reconnect attempt counter is zero: an onopen leaves it at zero whatever it
\* was before, and nothing but a close raises it.
C6_ResetOnSuccess == failures = 0 => reconnectAttemptsRef = 0

\* C6 witness: under an unchanged symbol the last retry of the budget has opened,
\* and the counter, which was at its maximum, is zero.
C6_Witness ==
    /\ rebinds = 0
    /\ Len(sockets) = MAX_RECONNECT_ATTEMPTS + 1
    /\ sockets[Len(sockets)].byTimer
    /\ sockets[Len(sockets)].readyState = OPEN
    /\ failures = 0
    /\ reconnectAttemptsRef = 0

\* C7 (up to 5 retries): the timer callbacks create at most
\* MAX_RECONNECT_ATTEMPTS sockets between two onopen events.
C7_AtMostMaxRetries == timerConnects <= MAX_RECONNECT_ATTEMPTS

\* C8 (isConnected iff open): while the component is mounted, isConnected holds
\* exactly when a socket of the current binding is open.
C8_ConnectedIffOpen ==
    phase = "mounted"
        => (isConnected <=>
               \E i \in DOMAIN sockets :
                   sockets[i].binding = rebinds /\ sockets[i].readyState = OPEN)

\* C9 (data reset on key change): the step that rebinds the hook to another symbol
\* leaves all four facets of data null.
C9_DataResetOnRebind == [][rebinds' # rebinds => data' = InitialData]_vars

\* C10 (exhaustion is terminal): from a state in which the exhaustion error is
\* shown, a step that does not change the symbol leaves error non-null and
\* isConnected false, creates no socket and leaves no timer pending.
C10_ExhaustionTerminal ==
    [][(phase = "mounted" /\ error = ErrExhausted /\ SameBinding)
          => /\ error' # NULL
             /\ ~isConnected'
             /\ Len(sockets') = Len(sockets)
             /\ timers' = {}]_vars

\* Socket i handles an update frame in this step.
UpdateStep(i) == \E m \in UpdateFrames(sockets[i].url) : WsMessage(i, m)

C12_LoadingOnlyFirstAttempt ==
    phase = "mounted"
        => (isLoading <=> (Len(sockets) = 1 /\ sockets[1].readyState = CONNECTING))

\* C12 (loading until first open or exhaustion): while mounted, isLoading is
\* true exactly when the WebSocket constructor has not thrown, no onopen has
\* run yet and the retry budget is not exhausted; it stays true while the
\* reconnects that follow a failed first attempt are scheduled or in progress.
C12_LoadingUntilOpenOrFailed ==
    phase = "mounted"
        => (isLoading <=> (wsUrlOk /\ ~everOpened /\ failures <= MAX_RECONNECT_ATTEMPTS))

\* C12 witness: the first attempt has failed, a reconnect attempt is in
\* progress, and isLoading is still true.
C12_Witness ==
    /\ phase = "mounted"
    /\ isLoading
    /\ Len(sockets) >= 2
    /\ sockets[1].readyState = CLOSED
    /\ sockets[Len(sockets)].readyState = CONNECTING

\* C13 (malformed frames are dropped): handling a frame that is not JSON, or
\* is JSON of neither known type, leaves data, isConnected, isLoading, error and
\* lastUpdate unchanged, closes no socket, schedules no reconnect and leaves
\* the reconnect counter and the socket reference alone.
C13_MalformedDropped ==
    [][\A i \in DOMAIN sockets : \A m \in MalformedFrames :
          WsMessage(i, m)
              => UNCHANGED <<snapshot, sockets, timers, wsRef, reconnectAttemptsRef,
                             reconnectTimeoutRef>>]_vars

\* C13 witness: a malformed frame has been handled, the connection is still
\* open and connected, and no error is reported.
C13_Witness ==
    /\ phase = "mounted"
    /\ dropped
    /\ isConnected
    /\ error = NULL
    /\ timers = {}
    /\ \E i \in DOMAIN sockets : sockets[i].readyState = OPEN

\* C14 (server error frames are non-fatal): handling an error frame while
\* mounted sets error to the frame's message and leaves isConnected, data,
\* lastUpdate, the reconnect counter, the sockets and the timers unchanged.
C14_ServerErrorNonFatal ==
    [][\A i \in DOMAIN sockets :
          (phase = "mounted" /\ WsMessage(i, ErrorFrame))
              => /\ error' = ServerMessage
                 /\ UNCHANGED <<data, lastUpdate, isConnected, isLoading,
                                reconnectAttemptsRef, sockets, timers, wsRef>>]_vars

\* C14 witness: the server's message is in error while the connection is open,
\* connected, holds data and has no reconnect pending.
C14_Witness ==
    /\ phase = "mounted"
    /\ error = ServerMessage
    /\ isConnected
    /\ lastUpdate # NULL
    /\ timers = {}
    /\ reconnectAttemptsRef = 0
    /\ \E i \in DOMAIN sockets : sockets[i].readyState = OPEN

\* C15 (stale data stays visible): data and lastUpdate change only in the
\* handling of an update frame, which leaves lastUpdate equal to the frame's
\* timestamp and data equal to the frame's data; transport errors, closes,
\* reconnects and exhaustion leave both unchanged.
C15_StaleDataKept ==
    [][(data' # data \/ lastUpdate' # lastUpdate)
          => \E i \in DOMAIN sockets : \E m \in UpdateFrames(sockets[i].url) :
                /\ WsMessage(i, m)
                /\ lastUpdate' = m.timestamp
                /\ data' = m.data]_vars

\* C15 witness: an update was applied, the connection was then lost and the
\* retries were exhausted, and the data and its timestamp are still there.
C15_Witness ==
    /\ phase = "mounted"
    /\ lastUpdate # NULL
    /\ data # InitialData
    /\ error = ErrExhausted
    /\ ~isConnected
    /\ NonClosed = {}

\* C16 (no leaked connection): after the final cleanup every socket the hook
\* created is closing or closed, and a socket created for a previous key is
\* never connecting or open.
C16_NoLeakedConnection ==
    /\ phase = "unmounted"
          => \A i \in DOMAIN sockets : sockets[i].readyState \in {CLOSING, CLOSED}
    /\ \A i \in DOMAIN sockets :
          sockets[i].binding < rebinds => sockets[i].readyState \notin {CONNECTING, OPEN}

\* A socket created in this step.
Created == IF Len(sockets') > Len(sockets) THEN {Len(sockets')} ELSE {}

\* C17 (teardown is terminal): the close of a socket whose binding has been
\* torn down schedules no reconnect timer, the timer of a torn-down binding
\* creates no socket, and every socket created belongs to the current binding of a mounted
\* component.
C17_TeardownTerminal ==
    [][/\ \A i \in DOMAIN sockets :
             (TornDown(i) /\ (WsClose(i) \/ WsFail(i))) => timers' \subseteq timers
       /\ \A i \in timers :
             (TornDown(i) /\ TimerFire(i, MaxSockets)) => Len(sockets') = Len(sockets)
       /\ \A j \in Created :
             /\ phase' = "mounted"
             /\ sockets'[j].binding = rebinds'
             /\ sockets'[j].symbol = symbol']_vars

\* C18 (fresh budget per binding): a symbol change leaves the reconnect attempt
\* counter at zero, and the close of a socket of a previous binding does not
\* count against the new binding.
C18_FreshBudgetPerBinding ==
    [][/\ rebinds' # rebinds => reconnectAttemptsRef' = 0
       /\ \A i \in DOMAIN sockets :
             (sockets[i].binding < rebinds /\ (WsClose(i) \/ WsFail(i)))
                 => reconnectAttemptsRef' = reconnectAttemptsRef]_vars

\* The sockets created by the connect closure of binding b.
SocketsOf(b) == {i \in DOMAIN sockets : sockets[i].binding = b}

\* The lifecycle state of binding b as the hook's state shows it between two
\* callbacks. Closed is not among them: onclose leaves it within the same
\* callback, for ReconnectScheduled or for Failed.
BindingState(b) ==
    IF \E i \in SocketsOf(b) : sockets[i].readyState = OPEN THEN "Open"
    ELSE IF \E i \in SocketsOf(b) : sockets[i].readyState = CONNECTING THEN "Connecting"
    ELSE IF timers \cap SocketsOf(b) # {} THEN "ReconnectScheduled"
    ELSE IF phase = "mounted" /\ b = rebinds /\ SocketsOf(b) # {} THEN "Failed"
    ELSE "Idle"

\* The edges of the lifecycle between two callbacks: the edges through Closed
\* are joined (Open -> Closed -> ReconnectScheduled, Open -> Closed -> Failed),
\* and so is Connecting -> ReconnectScheduled -> Failed.
LegalEdges ==
    { <<"Idle", "Connecting">>,
      <<"Connecting", "Open">>,
      <<"Connecting", "ReconnectScheduled">>,
      <<"Connecting", "Failed">>,
      <<"Open", "ReconnectScheduled">>,
      <<"Open", "Failed">>,
      <<"ReconnectScheduled", "Connecting">>,
      <<"ReconnectScheduled", "Failed">> }

\* The effect cleanup of binding b runs in this step.
Teardown(b) ==
    \/ b = rebinds /\ rebinds' # rebinds
    \/ phase = "mounted" /\ phase' = "unmounted"

\* C19 (legal transitions only): between two callbacks the lifecycle of every
\* binding either stays where it is, takes one of the legal edges, or goes to
\* Idle in the step that tears the binding down; and a socket is created for a
\* binding only from Idle or ReconnectScheduled.
C19_LegalTransitionsOnly ==
    [][\A b \in 0..rebinds' :
          /\ \/ BindingState(b)' = BindingState(b)
             \/ <<BindingState(b), BindingState(b)'>> \in LegalEdges
             \/ Teardown(b) /\ BindingState(b)' = "Idle"
          /\ (\E j \in Created : sockets'[j].binding = b)
                => BindingState(b) \in {"Idle", "ReconnectScheduled"}]_vars

\* The connection was lost or could not be made, and no transport is left.
Lost == phase = "mounted" /\ failures >= 1 /\ NonClosed = {}
\* The retry budget is exhausted and reported.
Failed == error = ErrExhausted /\ timers = {}
\* A connection attempt is under way.
Attempting == \E i \in DOMAIN sockets : sockets[i].readyState = CONNECTING

\* C20 (recovery always progresses): with one symbol and no unmount, whenever
\* the transport has closed and none is left, isConnected is false and either a
\* reconnect timer is pending or Failed is reported; and such a state is
\* always followed by a new connection attempt or by Failed (or by the end of
\* the modelled run, when OneKeySockets sockets have been created).
C20_RecoveryProgresses ==
    /\ [](Lost => (~isConnected /\ (timers # {} \/ Failed)))
    /\ Lost ~> (Attempting \/ Failed \/ Len(sockets) = OneKeySockets)

\* C20 witness: an open connection has dropped, isConnected is false and the
\* reconnect timer is pending.
C20_Witness ==
    /\ Lost
    /\ everOpened
    /\ ~isConnected
    /\ timers # {}
    /\ Len(sockets) < OneKeySockets

\* connect() ends in its catch block in this step: new WebSocket threw.
ConnectThrows == error # ErrEstablish /\ error' = ErrEstablish

\* C21 (a failed attempt is retried): while mounted with budget left, a
\* connection attempt of the current binding that ends before onopen leaves a
\* reconnect timer pending, whether its socket closed before it was
\* established or new WebSocket threw inside connect().
C21_FailedAttemptRetried ==
    [][/\ \A i \in DOMAIN sockets :
             ( /\ phase = "mounted"
               /\ ~TornDown(i)
               /\ sockets[i].readyState = CONNECTING
               /\ reconnectAttemptsRef < MAX_RECONNECT_ATTEMPTS
               /\ WsFail(i) )
                 => i \in timers'
       /\ ( /\ phase' = "mounted"
            /\ reconnectAttemptsRef < MAX_RECONNECT_ATTEMPTS
            /\ ConnectThrows )
              => timers' # {}]_vars

\* C22 (no update from a previous key's transport): every step in which the
\* handling of an update frame changes data or lastUpdate is taken by a socket
\* that was created for the hook's current symbol.
C22_UpdatesFromCurrentKey ==
    [][\A i \in DOMAIN sockets :
          (UpdateStep(i) /\ (data' # data \/ lastUpdate' # lastUpdate))
              => sockets[i].symbol = symbol]_vars

\* C23 (panel falls back to HTTP): whenever the wsData the panel's effects ran
\* with carries no facet (null or undefined) the polling interval is set, and a
\* rendered panel always leaves its loading state, even if no frame arrives.
C23_PanelFallsBackToHttp ==
    /\ [](panelProps \in {NULL, UNDEFINED} => panelInterval)
    /\ (panelProps # "unrendered") ~> ~panelLoading

\* The assistant messages of the chat, by position.
AssistantMessages == {k \in DOMAIN messages : messages[k].role = "assistant"}

\* C24 (timestamp only after the stream): no assistant message has a timestamp
\* while the stream of the sendMessage call that created it is still being read.
C24_TimestampAfterStream ==
    \A k \in AssistantMessages :
        messages[k].timestamp => requests[messages[k].owner].pc # "streaming"

\* C25 (a stream writes only its own message): the content of every assistant
\* message is the text it was created with or was written by the stream of the
\* sendMessage call that created it.
C25_StreamWritesOwnMessage ==
    \A k \in AssistantMessages :
        messages[k].content.by \in {0, messages[k].owner}

\* C26 (timer excludes transport): whenever a reconnect timer is pending, no
\* socket of the hook is connecting or open, and the only pending timer is the
\* one reconnectTimeoutRef refers to.
C26_TimerExcludesTransport ==
    timers # {}
        => /\ \A i \in DOMAIN sockets : sockets[i].readyState \notin {CONNECTING, OPEN}
           /\ timers = {reconnectTimeoutRef}

\* C27 (data and lastUpdate change together): lastUpdate is null exactly when
\* no update frame has been applied, and then data is as constructed; the
\* handling of an update frame while mounted leaves in data the frame's four
\* facet values and in lastUpdate the frame's timestamp; and a step that
\* handles no update frame (error frame, malformed frame, open, error, close,
\* timer, symbol change) changes neither.
C27_DataAndLastUpdateTogether ==
    /\ []((lastUpdate = NULL) <=> (populated = {}))
    /\ [](lastUpdate = NULL => data = InitialData)
    /\ [][/\ \A i \in DOMAIN sockets : \A m \in UpdateFrames(sockets[i].url) :
               (phase = "mounted" /\ WsMessage(i, m))
                   => (data' = m.data /\ lastUpdate' = m.timestamp)
          /\ (\A i \in DOMAIN sockets : ~UpdateStep(i))
                => UNCHANGED <<data, lastUpdate>>]_vars

\* C27 witness: an update frame was applied, and after an error frame, a
\* malformed frame and a lost connection data and lastUpdate are both there.
C27_Witness ==
    /\ phase = "mounted"
    /\ lastUpdate # NULL
    /\ populated # {}
    /\ dropped
    /\ error = ServerMessage
    /\ failures >= 1

\* C28 (isLoading never returns): no step takes isLoading from false to true.
C28_LoadingNeverReturns == [][~isLoading => ~isLoading']_vars

\* C28 witness: after the first open the symbol changed, a socket of the new
\* binding is connecting, and isLoading is false.
C28_Witness ==
    /\ phase = "mounted"
    /\ ~isLoading
    /\ everOpened
    /\ rebinds >= 1
    /\ \E i \in DOMAIN sockets :
          sockets[i].binding = rebinds /\ sockets[i].readyState = CONNECTING

\* C29 (counter within bounds): the reconnect attempt counter is in
\* 0..MAX_RECONNECT_ATTEMPTS; a step changes it only by adding one in an onclose
\* that found it below the maximum, or by setting it to zero in an onopen.
C29_CounterWithinBounds ==
    /\ [](reconnectAttemptsRef \in 0..MAX_RECONNECT_ATTEMPTS)
    /\ [][reconnectAttemptsRef' # reconnectAttemptsRef
            => \/ /\ reconnectAttemptsRef < MAX_RECONNECT_ATTEMPTS
                  /\ reconnectAttemptsRef' = reconnectAttemptsRef + 1
                  /\ \E i \in DOMAIN sockets : WsClose(i) \/ WsFail(i)
               \/ /\ reconnectAttemptsRef' = 0
                  /\ \E i \in DOMAIN sockets : WsOpen(i)]_vars

\* C29 witness: the counter is at the maximum after one more close, which
\* reported the exhaustion instead of counting.
C29_Witness ==
    /\ phase = "mounted"
    /\ reconnectAttemptsRef = MAX_RECONNECT_ATTEMPTS
    /\ failures = MAX_RECONNECT_ATTEMPTS + 1
    /\ error = ErrExhausted

====
